---- MODULE Spec2Model ----
(***************************************************************************)
(* A model of the Task Manager API of src/main.py: the tasks table, the    *)
(* request validation of the pydantic schemas, and the list / create /     *)
(* update / delete handlers.  Strings are sequences of one-character       *)
(* strings, so that strip(), the length bounds and ILIKE are computed.     *)
(***************************************************************************)
EXTENDS Integers, Sequences, FiniteSets, TLC

(* ------------------------------ bounds -------------------------------- *)

\* The number of clock readings (inserts and updates that write) in a run.
MaxTime == 3

(* ------------------------- program constants -------------------------- *)

TitleMinLen == 1
TitleMaxLen == 255
LimitDefault == 200
LimitMin == 1
LimitMax == 1000

Priorities == {"low", "medium", "high"}
Statuses == {"open", "in_progress", "done"}

(* ------------------------------ strings ------------------------------- *)

\* The characters str.strip() removes (of those the inputs below use).
Whitespace == {" ", "\t"}

RECURSIVE lstrip(_)
lstrip(s) ==
  IF s # <<>> /\ Head(s) \in Whitespace THEN lstrip(Tail(s)) ELSE s

RECURSIVE rstrip(_)
rstrip(s) ==
  IF s # <<>> /\ s[Len(s)] \in Whitespace
  THEN rstrip(SubSeq(s, 1, Len(s) - 1))
  ELSE s

stripIdentity(s) == s

\* str.strip(): leading and trailing whitespace removed.
strip(s) == rstrip(lstrip(s))

\* lower() of one character, as ILIKE folds case.
lowerChar(c) ==
  CASE c = "A" -> "a"
    [] c = "B" -> "b"
    [] OTHER -> c

lower(s) == [i \in 1..Len(s) |-> lowerChar(s[i])]

\* SQL LIKE: % matches any run of characters, _ any one character.
RECURSIVE likeMatch(_, _)
likeMatch(pat, s) ==
  IF pat = <<>> THEN s = <<>>
  ELSE IF Head(pat) = "%"
       THEN likeMatch(Tail(pat), s) \/ (s # <<>> /\ likeMatch(pat, Tail(s)))
       ELSE /\ s # <<>>
            /\ (Head(pat) = "_" \/ Head(pat) = Head(s))
            /\ likeMatch(Tail(pat), Tail(s))

\* column.ilike(pattern): LIKE on the case-folded operands.
ilike(s, pat) == likeMatch(lower(pat), lower(s))

\* q is a substring of s (what a plain substring search would compute).
IsSubstring(q, s) ==
  \E i \in 0..(Len(s) - Len(q)) : SubSeq(s, i + 1, i + Len(q)) = q

Has(r, f) == f \in DOMAIN r

(* ------------------------------- state -------------------------------- *)

VARIABLES
  tasks,   \* the rows of table "tasks"
  now,     \* the last value datetime.utcnow() returned to a flush
  last,    \* the last request served and its response
  sess     \* per worker: the request-scoped Session and the handler's position

vars == <<tasks, now, last, sess>>

\* The workers that serve requests side by side.
Proc == {1, 2}

Columns ==
  {"id", "title", "description", "priority", "status", "due_date",
   "completed", "created_at", "updated_at"}

\* A nullable Date column: <<>> is NULL, <<d>> the date d.
NullDate == <<>>

Ids(rows) == {t.id : t \in rows}

Row(rows, id) == CHOOSE t \in rows : t.id = id

Max(S) == CHOOSE x \in S : \A y \in S : y <= x

NewIdByCount(rows) == Cardinality(rows) + 1

\* Integer primary key of the default (SQLite) store: one more than the
\* largest id in the table.
NewId(rows) == IF rows = {} THEN 1 ELSE Max(Ids(rows)) + 1

\* TaskOut.from_orm_task
from_orm_task(t) ==
  [id |-> t.id, title |-> t.title, description |-> t.description,
   priority |-> t.priority, status |-> t.status, dueDate |-> t.due_date,
   completed |-> t.completed, createdAt |-> t.created_at]

(* ------------------------------ requests ------------------------------ *)

Long256 == [i \in 1..(TitleMaxLen + 1) |-> "a"]

\* Bodies of POST /tasks.  A field that is absent (or null) is not in the
\* record's domain.
CreateReqs ==
  { [title |-> <<" ", "a", "\t">>],
    [title |-> <<"A", "b">>, description |-> <<" ", "b", " ">>,
     priority |-> "high", dueDate |-> 1],
    [title |-> <<" ", "\t">>],
    [title |-> <<>>],
    [title |-> Long256],
    [title |-> <<"b">>, priority |-> "urgent"],
    [description |-> <<"b">>] }

\* Bodies of PATCH /tasks/{id}.
UpdateReqs ==
  { [x \in {} |-> TRUE],
    [title |-> <<" ", "\t">>],
    [title |-> <<" ", "A", "b", " ">>],
    [title |-> <<>>],
    [title |-> Long256],
    [status |-> "done"],
    [status |-> "in_progress"],
    [completed |-> TRUE],
    [completed |-> FALSE],
    [status |-> "open", completed |-> TRUE],
    [status |-> "done", completed |-> FALSE],
    [status |-> "in_progress", completed |-> FALSE],
    [description |-> <<" ", "b">>, priority |-> "low", dueDate |-> 2],
    [priority |-> "urgent"],
    [status |-> "closed"] }

\* Query strings of GET /tasks.
ListReqs ==
  { [x \in {} |-> TRUE],
    [q |-> <<"A">>],
    [q |-> <<"b">>, show_completed |-> FALSE],
    [q |-> <<"_">>],
    [status |-> "done"],
    [status |-> "open", priority |-> "high"],
    [show_completed |-> FALSE, limit |-> 1],
    [limit |-> 1],
    [limit |-> 0],
    [status |-> "closed"] }

\* The ids a path names: every id the table can hold within MaxTime inserts.
PathIds == 1..MaxTime

(* ----------------------------- validation ----------------------------- *)

\* TaskCreate
TaskCreateValid(p) ==
  /\ Has(p, "title")
  /\ Len(p.title) >= TitleMinLen
  /\ Len(p.title) <= TitleMaxLen
  /\ Has(p, "priority") => p.priority \in Priorities

\* TaskUpdate
TaskUpdateValid(p) ==
  /\ Has(p, "title") => Len(p.title) >= TitleMinLen /\ Len(p.title) <= TitleMaxLen
  /\ Has(p, "priority") => p.priority \in Priorities
  /\ Has(p, "status") => p.status \in Statuses

\* The Query(...) declarations of list_tasks
ListQueryValid(p) ==
  /\ Has(p, "status") => p.status \in Statuses
  /\ Has(p, "priority") => p.priority \in Priorities
  /\ Has(p, "limit") => p.limit >= LimitMin /\ p.limit <= LimitMax

(* ------------------------- the unit of work --------------------------- *)

\* The Task(...) object create_task builds, as the INSERT stores it: the id
\* from the store, created_at and updated_at from the column defaults.
NewTask(p, id, ts) ==
  [id |-> id,
   title |-> strip(p.title),
   description |-> IF Has(p, "description") THEN strip(p.description) ELSE <<>>,
   priority |-> IF Has(p, "priority") THEN p.priority ELSE "medium",
   status |-> "open",
   due_date |-> IF Has(p, "dueDate") THEN <<p.dueDate>> ELSE NullDate,
   completed |-> FALSE,
   created_at |-> ts,
   updated_at |-> ts]

CoupleStatusForceOnly(t) ==
  IF t.completed /\ t.status # "done" THEN [t EXCEPT !.status = "done"] ELSE t

CoupleStatusResetOnly(t) ==
  IF ~t.completed /\ t.status = "done" THEN [t EXCEPT !.status = "open"] ELSE t

\* The completed/status coupling of update_task.
CoupleStatus(t) ==
  LET t1 == IF t.completed /\ t.status # "done"
            THEN [t EXCEPT !.status = "done"] ELSE t
  IN IF ~t1.completed /\ t1.status = "done"
     THEN [t1 EXCEPT !.status = "open"] ELSE t1

AssignTitleBlank(t, p) ==
  IF Has(p, "title") THEN [t EXCEPT !.title = strip(p.title)] ELSE t

\* t.title = payload.title.strip() or t.title
AssignTitle(t, p) ==
  IF Has(p, "title")
  THEN [t EXCEPT !.title =
          IF strip(p.title) # <<>> THEN strip(p.title) ELSE t.title]
  ELSE t

AssignDueDateAlways(t, p) ==
  [t EXCEPT !.due_date = IF Has(p, "dueDate") THEN <<p.dueDate>> ELSE NullDate]

\* if payload.dueDate is not None: t.due_date = payload.dueDate
AssignDueDate(t, p) ==
  IF Has(p, "dueDate") THEN [t EXCEPT !.due_date = <<p.dueDate>>] ELSE t

\* The attribute assignments of update_task on the loaded object t.
ApplyPayload(t, p) ==
  LET t1 == AssignTitle(t, p)
      t2 == IF Has(p, "description")
            THEN [t1 EXCEPT !.description = p.description] ELSE t1
      t3 == IF Has(p, "priority")
            THEN [t2 EXCEPT !.priority = p.priority] ELSE t2
      t4 == IF Has(p, "status")
            THEN [t3 EXCEPT !.status = p.status] ELSE t3
      t5 == AssignDueDate(t4, p)
  IN IF Has(p, "completed")
     THEN CoupleStatus([t5 EXCEPT !.completed = p.completed])
     ELSE t5

\* The columns whose value the handler changed since the row was loaded:
\* the flush writes these and no others.
Dirty(snap, obj) == {c \in Columns : obj[c] # snap[c]}

FlushedWholeRow(row, snap, obj, ts) ==
  IF Dirty(snap, obj) = {} THEN row ELSE [obj EXCEPT !.updated_at = ts]

\* The row after the flush's UPDATE: the changed columns take the object's
\* values, updated_at takes its onupdate value, the rest stay as stored.
\* Without a changed column the flush emits no UPDATE.
Flushed(row, snap, obj, ts) ==
  IF Dirty(snap, obj) = {} THEN row
  ELSE [c \in Columns |->
          IF c \in Dirty(snap, obj) THEN obj[c]
          ELSE IF c = "updated_at" THEN ts
          ELSE row[c]]

Replace(rows, id, row) == {t \in rows : t.id # id} \cup {row}

DeleteRowNone(rows, id) == rows

\* db.delete(t); db.commit()
DeleteRow(rows, id) == {t \in rows : t.id # id}

(* ------------------------------- list --------------------------------- *)

Like(q) == <<"%">> \o q \o <<"%">>

\* The filters list_tasks adds to the query.
Matches(t, p) ==
  /\ (Has(p, "q") /\ p.q # <<>>) =>
       (ilike(t.title, Like(p.q)) \/ ilike(t.description, Like(p.q)))
  /\ Has(p, "status") => t.status = p.status
  /\ Has(p, "priority") => t.priority = p.priority
  /\ (Has(p, "show_completed") /\ ~p.show_completed) => ~t.completed

Limit(p) == IF Has(p, "limit") THEN p.limit ELSE LimitDefault

\* The orders ORDER BY created_at DESC may return the rows S in.
Ordered(S) ==
  {f \in [1..Cardinality(S) -> S] :
     /\ \A i, j \in 1..Cardinality(S) : i < j => f[i] # f[j]
     /\ \A i, j \in 1..Cardinality(S) :
          i < j => f[i].created_at >= f[j].created_at}

Truncate(f, n) == SubSeq(f, 1, IF Len(f) < n THEN Len(f) ELSE n)

(* ----------------------- handlers, one request ------------------------ *)

Idle == [pc |-> "idle"]

\* GET /tasks
list_tasks(p) ==
  /\ IF ~ListQueryValid(p)
     THEN last' = [op |-> "list", req |-> p, code |-> 422]
     ELSE \E f \in Ordered({t \in tasks : Matches(t, p)}) :
            last' = [op |-> "list", req |-> p, code |-> 200,
                     body |-> [i \in 1..Len(Truncate(f, Limit(p))) |->
                                 from_orm_task(f[i])]]
  /\ UNCHANGED <<tasks, now, sess>>

\* POST /tasks
create_task(p) ==
  /\ IF ~TaskCreateValid(p)
     THEN /\ last' = [op |-> "create", req |-> p, code |-> 422]
          /\ UNCHANGED <<tasks, now>>
     ELSE /\ now < MaxTime
          /\ LET t == NewTask(p, NewId(tasks), now + 1)
             IN /\ tasks' = tasks \cup {t}
                /\ last' = [op |-> "create", req |-> p, code |-> 201,
                            body |-> from_orm_task(t)]
          /\ now' = now + 1
  /\ UNCHANGED sess

\* PATCH /tasks/{task_id}
update_task(id, p) ==
  /\ IF ~TaskUpdateValid(p)
     THEN /\ last' = [op |-> "update", id |-> id, req |-> p, code |-> 422]
          /\ UNCHANGED <<tasks, now>>
     ELSE IF id \notin Ids(tasks)
     THEN /\ last' = [op |-> "update", id |-> id, req |-> p, code |-> 404]
          /\ UNCHANGED <<tasks, now>>
     ELSE LET t == Row(tasks, id)
              obj == ApplyPayload(t, p)
          IN IF Dirty(t, obj) = {}
             THEN /\ last' = [op |-> "update", id |-> id, req |-> p,
                              code |-> 200, body |-> from_orm_task(t)]
                  /\ UNCHANGED <<tasks, now>>
             ELSE /\ now < MaxTime
                  /\ LET new == Flushed(t, t, obj, now + 1)
                     IN /\ tasks' = Replace(tasks, id, new)
                        /\ last' = [op |-> "update", id |-> id, req |-> p,
                                    code |-> 200, body |-> from_orm_task(new)]
                  /\ now' = now + 1
  /\ UNCHANGED sess

\* DELETE /tasks/{task_id}
delete_task(id) ==
  /\ IF id \notin Ids(tasks)
     THEN /\ last' = [op |-> "delete", id |-> id, code |-> 404]
          /\ UNCHANGED tasks
     ELSE /\ tasks' = DeleteRow(tasks, id)
          /\ last' = [op |-> "delete", id |-> id, code |-> 204]
  /\ UNCHANGED <<now, sess>>

Init ==
  /\ tasks = {}
  /\ now = 0
  /\ last = [op |-> "none"]
  /\ sess = [w \in Proc |-> Idle]

List == \E p \in ListReqs : list_tasks(p)

Create == \E p \in CreateReqs : create_task(p)

Update == \E id \in PathIds, p \in UpdateReqs : update_task(id, p)

Delete == \E id \in PathIds : delete_task(id)

Next == List \/ Create \/ Update \/ Delete

Spec == Init /\ [][Next]_vars

(* ------------------- handlers, requests side by side ------------------ *)

\* Requests of the workers that run side by side.
ConcCreateReqs == {[title |-> <<" ", "a", "\t">>]}

ConcUpdateReqs ==
  { [completed |-> TRUE],
    [completed |-> FALSE],
    [status |-> "in_progress"],
    [title |-> <<" ", "A", "b", " ">>] }

ConcIds == {1, 2}

\* update_task up to its query: the row is loaded into the worker's session
\* and the payload assigned to the loaded object.
UpdateRead(w, id, p) ==
  /\ sess[w] = Idle
  /\ IF id \notin Ids(tasks)
     THEN /\ last' = [op |-> "update", id |-> id, req |-> p, code |-> 404]
          /\ UNCHANGED sess
     ELSE /\ sess' = [sess EXCEPT ![w] =
                        [pc |-> "update", id |-> id, req |-> p,
                         snap |-> Row(tasks, id),
                         obj |-> ApplyPayload(Row(tasks, id), p)]]
          /\ UNCHANGED last
  /\ UNCHANGED <<tasks, now>>

\* update_task from db.commit() on: the flush writes the changed columns of
\* the row with the loaded id, and db.refresh(t) reads the row back.  A flush
\* whose UPDATE matches no row, and a refresh that finds no row, raise.
UpdateCommit(w) ==
  /\ sess[w].pc = "update"
  /\ LET s == sess[w]
     IN IF s.id \notin Ids(tasks)
        THEN /\ last' = [op |-> "update", id |-> s.id, req |-> s.req,
                         read |-> s.snap, code |-> 500]
             /\ UNCHANGED <<tasks, now>>
        ELSE IF Dirty(s.snap, s.obj) = {}
        THEN /\ last' = [op |-> "update", id |-> s.id, req |-> s.req,
                         read |-> s.snap, code |-> 200,
                         body |-> from_orm_task(Row(tasks, s.id))]
             /\ UNCHANGED <<tasks, now>>
        ELSE /\ now < MaxTime
             /\ LET new == Flushed(Row(tasks, s.id), s.snap, s.obj, now + 1)
                IN /\ tasks' = Replace(tasks, s.id, new)
                   /\ last' = [op |-> "update", id |-> s.id, req |-> s.req,
                               read |-> s.snap, code |-> 200,
                               body |-> from_orm_task(new)]
             /\ now' = now + 1
  /\ sess' = [sess EXCEPT ![w] = Idle]

\* delete_task up to its query.
DeleteRead(w, id) ==
  /\ sess[w] = Idle
  /\ IF id \notin Ids(tasks)
     THEN /\ last' = [op |-> "delete", id |-> id, code |-> 404]
          /\ UNCHANGED sess
     ELSE /\ sess' = [sess EXCEPT ![w] =
                        [pc |-> "delete", id |-> id, snap |-> Row(tasks, id)]]
          /\ UNCHANGED last
  /\ UNCHANGED <<tasks, now>>

\* delete_task from db.delete(t) on: the DELETE of the row with the loaded id;
\* one that matches no row is not an error.
DeleteCommit(w) ==
  /\ sess[w].pc = "delete"
  /\ tasks' = DeleteRow(tasks, sess[w].id)
  /\ last' = [op |-> "delete", id |-> sess[w].id, code |-> 204]
  /\ sess' = [sess EXCEPT ![w] = Idle]
  /\ UNCHANGED now

ConcCreate == \E p \in ConcCreateReqs : create_task(p)

ConcUpdateRead ==
  \E w \in Proc, id \in ConcIds, p \in ConcUpdateReqs : UpdateRead(w, id, p)

ConcUpdateCommit == \E w \in Proc : UpdateCommit(w)

ConcDeleteRead == \E w \in Proc, id \in ConcIds : DeleteRead(w, id)

ConcDeleteCommit == \E w \in Proc : DeleteCommit(w)

NextConc ==
  \/ ConcCreate
  \/ ConcUpdateRead
  \/ ConcUpdateCommit
  \/ ConcDeleteRead
  \/ ConcDeleteCommit

SpecConc == Init /\ [][NextConc]_vars

(* ---------------------- properties of one request --------------------- *)

AllWhitespace(s) == \A k \in 1..Len(s) : s[k] \in Whitespace

\* r is s without its surrounding whitespace.
IsTrimOf(r, s) ==
  /\ r # <<>> => (r[1] \notin Whitespace /\ r[Len(r)] \notin Whitespace)
  /\ \E i \in 0..Len(s) :
       /\ i + Len(r) <= Len(s)
       /\ SubSeq(s, i + 1, i + Len(r)) = r
       /\ \A k \in 1..Len(s) : (k <= i \/ k > i + Len(r)) => s[k] \in Whitespace

Coupled(t) == t.completed <=> (t.status = "done")

\* The step served an update of a stored task with success.
Updated == last'.op = "update" /\ last'.code = 200

\* C1: a successful create with a valid title stores and returns a task that
\* is open, not completed, titled with the trimmed title, of the supplied
\* priority (medium by default), under an id no stored task has.
C1_CreateYieldsFreshOpenTask ==
  [][(/\ last'.op = "create"
      /\ last'.code = 201
      /\ ~AllWhitespace(last'.req.title))
     => LET b == last'.body
            p == last'.req
        IN /\ b.status = "open"
           /\ b.completed = FALSE
           /\ IsTrimOf(b.title, p.title)
           /\ b.priority = (IF Has(p, "priority") THEN p.priority ELSE "medium")
           /\ b.id \notin Ids(tasks)
           /\ \E t \in tasks' : /\ from_orm_task(t) = b
                                /\ tasks' = tasks \cup {t}
           /\ \A t, u \in tasks' : t.id = u.id => t = u]_vars

\* A create that is given an id freed by an earlier delete, beside a stored task.
C1_Witness ==
  /\ last.op = "create"
  /\ last.code = 201
  /\ ~AllWhitespace(last.req.title)
  /\ Cardinality(tasks) = 2
  /\ last.body.id = 2
  /\ last.body.createdAt = 3
  /\ \A t \in tasks : t.updated_at = t.created_at

\* C2: create fails with a validation error and stores nothing when the title
\* is empty after trimming, longer than 255 characters, or the priority is
\* none of low, medium, high; so no stored task has an empty title.
C2_CreateRejectsInvalid ==
  [][/\ (/\ last'.op = "create"
         /\ Has(last'.req, "title")
         /\ \/ AllWhitespace(last'.req.title)
            \/ Len(last'.req.title) > 255
            \/ (Has(last'.req, "priority")
                /\ last'.req.priority \notin {"low", "medium", "high"}))
        => (last'.code = 422 /\ tasks' = tasks)
     /\ \A t \in tasks' : t.title # <<>>]_vars

\* C3 as stated: with completed = true the returned task is completed and
\* done; with completed = false and the task's status done it is not
\* completed and open; with completed = false and the task's status not done
\* the coupling leaves the status as the request made it.
C3_CouplingOnStoredStatus ==
  [][(Updated /\ Has(last'.req, "completed"))
     => LET b == last'.body
            p == last'.req
            old == Row(tasks, last'.id)
        IN /\ p.completed => (b.completed /\ b.status = "done")
           /\ (~p.completed /\ old.status = "done")
                => (~b.completed /\ b.status = "open")
           /\ (~p.completed /\ old.status # "done")
                => (/\ ~b.completed
                    /\ b.status = (IF Has(p, "status") THEN p.status
                                   ELSE old.status))]_vars

\* C3 amended: the coupling reads the status after the request's explicit
\* status, if any, has been assigned.
C3_CouplingOnAssignedStatus ==
  [][(Updated /\ Has(last'.req, "completed"))
     => LET b == last'.body
            p == last'.req
            old == Row(tasks, last'.id)
            cur == IF Has(p, "status") THEN p.status ELSE old.status
        IN /\ p.completed => (b.completed /\ b.status = "done")
           /\ (~p.completed /\ cur = "done")
                => (~b.completed /\ b.status = "open")
           /\ (~p.completed /\ cur # "done")
                => (~b.completed /\ b.status = cur)]_vars

\* completed = false on a task the same request sets to done.
C3_Witness ==
  /\ last.op = "update"
  /\ last.code = 200
  /\ last.req = [status |-> "done", completed |-> FALSE]
  /\ last.body.status = "open"

C5_UpdateFrame ==
  [][Updated
     => LET p == last'.req
            old == Row(tasks, last'.id)
            new == Row(tasks', last'.id)
        IN /\ last'.id \in Ids(tasks)
           /\ Ids(tasks') = Ids(tasks)
           /\ ~Has(p, "title") => new.title = old.title
           /\ ~Has(p, "description") => new.description = old.description
           /\ ~Has(p, "priority") => new.priority = old.priority
           /\ ~Has(p, "dueDate") => new.due_date = old.due_date
           /\ ~Has(p, "completed") => new.completed = old.completed
           /\ (~Has(p, "status") /\ ~Has(p, "completed"))
                => new.status = old.status
           /\ new.id = old.id
           /\ new.created_at = old.created_at
           /\ last'.body.createdAt = old.created_at
           /\ \A t \in tasks : t.id # last'.id => t \in tasks']_vars

\* An update of three fields of one of two stored tasks.
C5_Witness ==
  /\ last.op = "update"
  /\ last.code = 200
  /\ DOMAIN last.req = {"description", "priority", "dueDate"}
  /\ Cardinality(tasks) >= 2
  /\ \E t \in tasks : t.id = last.id /\ t.updated_at > t.created_at

\* C6: an update of a stored task with a whitespace-only title succeeds and
\* leaves the stored title as it was; a title with other content replaces
\* the stored title by its trimmed value.
C6_BlankTitleKeepsTitle ==
  [][(/\ last'.op = "update"
      /\ last'.id \in Ids(tasks)
      /\ DOMAIN last'.req = {"title"}
      /\ Len(last'.req.title) \in 1..255)
     => LET p == last'.req
            old == Row(tasks, last'.id)
            new == Row(tasks', last'.id)
        IN /\ last'.code = 200
           /\ last'.id \in Ids(tasks')
           /\ IF AllWhitespace(p.title)
              THEN new.title = old.title /\ last'.body.title = old.title
              ELSE IsTrimOf(new.title, p.title) /\ last'.body.title = new.title]_vars

\* A whitespace-only title sent to a stored task.
C6_Witness ==
  /\ last.op = "update"
  /\ last.code = 200
  /\ last.req = [title |-> <<" ", "\t">>]
  /\ \E t \in tasks : t.id = last.id /\ t.title = <<"A", "b">>

\* C7: a deleted task is in no later list result, and an update or delete of
\* an id that is not stored (deleted and not assigned again by a create)
\* fails with not-found and changes no stored task.
C7_DeletedStaysGone ==
  [][/\ (last'.op = "delete" /\ last'.code = 204)
          => (/\ last'.id \in Ids(tasks)
              /\ last'.id \notin Ids(tasks')
              /\ tasks' = {t \in tasks : t.id # last'.id})
     /\ (last'.op = "delete" /\ last'.id \notin Ids(tasks))
          => (last'.code = 404 /\ tasks' = tasks)
     /\ (last'.op = "update" /\ last'.id \notin Ids(tasks))
          => (/\ last'.code \in {404, 422}
              /\ last'.code = 422 => ~TaskUpdateValid(last'.req)
              /\ tasks' = tasks)
     /\ (last'.op = "list" /\ last'.code = 200)
          => \A i \in 1..Len(last'.body) :
               \E t \in tasks : from_orm_task(t) = last'.body[i]
     /\ (Ids(tasks') \ Ids(tasks) # {})
          => (last'.op = "create" /\ last'.code = 201)]_vars

\* The only task was created and deleted, and a second delete of its id fails.
C7_Witness ==
  /\ tasks = {}
  /\ now >= 1
  /\ last.op = "delete"
  /\ last.code = 404
  /\ last.id = 1

\* The filter the list is specified to apply: q a case-insensitive substring
\* of the title or the description.
SpecMatches(t, p) ==
  /\ Has(p, "q") =>
       (IsSubstring(lower(p.q), lower(t.title))
          \/ IsSubstring(lower(p.q), lower(t.description)))
  /\ Has(p, "status") => t.status = p.status
  /\ Has(p, "priority") => t.priority = p.priority
  /\ (Has(p, "show_completed") /\ ~p.show_completed) => ~t.completed

\* C8: list returns exactly the stored tasks that satisfy all supplied
\* filters, newest first, cut to the first limit entries.
C8_ListExact ==
  (last.op = "list" /\ last.code = 200)
    => LET p == last.req
           b == last.body
           M == {t \in tasks : SpecMatches(t, p)}
           n == IF Has(p, "limit") THEN p.limit ELSE 200
       IN /\ Len(b) = (IF Cardinality(M) < n THEN Cardinality(M) ELSE n)
          /\ \A i \in 1..Len(b) : \E t \in M : from_orm_task(t) = b[i]
          /\ \A i, j \in 1..Len(b) :
               i < j => (b[i] # b[j] /\ b[i].createdAt >= b[j].createdAt)
          /\ \A t \in M :
               (\A i \in 1..Len(b) : b[i] # from_orm_task(t))
                 => \A i \in 1..Len(b) : b[i].createdAt >= t.created_at

\* C9: every successful update sets updatedAt to the time of the update, also
\* when the request changes no stored value; createdAt is never later than
\* updatedAt.
C9_UpdateRefreshesUpdatedAt ==
  [][/\ Updated
          => (/\ Row(tasks', last'.id).updated_at = now'
              /\ Row(tasks', last'.id).updated_at
                   > Row(tasks, last'.id).updated_at)
     /\ \A t \in tasks' : t.created_at <= t.updated_at]_vars

(* ----------------- properties of requests side by side ---------------- *)

DataColumns == Columns \ {"updated_at"}

\* Worker w commits its update in this step.
Commits(w) == sess[w].pc = "update" /\ sess'[w] = Idle

\* The row worker w loaded is still the stored row of that id (it was not
\* deleted, nor deleted and its id given to a new task).
StillStored(w) ==
  /\ sess[w].id \in Ids(tasks)
  /\ Row(tasks, sess[w].id).created_at = sess[w].snap.created_at

\* C10 as stated: the later commit of two concurrent updates leaves the task
\* as if the later update had run, whole, after the earlier one; and an
\* update whose task was deleted after its read fails, the task staying
\* deleted.
C10_SerialLastWriteWins ==
  [][\A w \in Proc :
       Commits(w)
         => LET s == sess[w]
            IN IF StillStored(w)
               THEN /\ s.id \in Ids(tasks')
                    /\ \A c \in DataColumns :
                         Row(tasks', s.id)[c]
                           = ApplyPayload(Row(tasks, s.id), s.req)[c]
               ELSE /\ last'.code >= 500
                    /\ tasks' = tasks]_vars

\* C10 amended: the last write wins column by column.  The later commit
\* writes the columns its update changed in the row it read and leaves every
\* other column as the earlier commit stored it; an update whose id is not
\* stored at its commit fails and stores nothing.
C10_ColumnLastWriteWins ==
  [][\A w \in Proc :
       Commits(w)
         => LET s == sess[w]
            IN IF s.id \in Ids(tasks)
               THEN /\ last'.code = 200
                    /\ Ids(tasks') = Ids(tasks)
                    /\ \A c \in DataColumns :
                         Row(tasks', s.id)[c]
                           = (IF s.obj[c] # s.snap[c] THEN s.obj[c]
                              ELSE Row(tasks, s.id)[c])
                    /\ last'.body = from_orm_task(Row(tasks', s.id))
                    /\ \A t \in tasks : t.id # s.id => t \in tasks'
               ELSE /\ last'.code = 500
                    /\ tasks' = tasks]_vars

\* The later of two concurrent updates has committed: the stored task holds a
\* value neither read nor written by it, from the earlier commit.
C10_Witness ==
  /\ last.op = "update"
  /\ last.code = 200
  /\ Has(last, "read")
  /\ \E t \in tasks :
       /\ t.id = last.id
       /\ t.created_at = last.read.created_at
       /\ \E c, d \in DataColumns :
            /\ t[c] # last.read[c]
            /\ t[c] # ApplyPayload(last.read, last.req)[c]
            /\ t[d] # last.read[d]
            /\ t[d] = ApplyPayload(last.read, last.req)[d]

\* An update whose task a concurrent delete removed after its read has failed.
C10_WitnessDeleted ==
  /\ last.op = "update"
  /\ last.code = 500
  /\ last.id \notin Ids(tasks)

====
